---- MODULE Spec2Model ----
(***************************************************************************)
(* Wedding Gallery Uploader (src/app.py): the client IP resolver, the      *)
(* upload handler with its file validator and thumbnail generator, the     *)
(* gallery lister and the two file-serving routes.                         *)
(*                                                                         *)
(* Text is modelled as a sequence of one-character strings, so that        *)
(* splitting, trimming, prefix tests and address parsing are computed the  *)
(* way the code computes them.                                             *)
(***************************************************************************)
EXTENDS Integers, Sequences, FiniteSets, TLC

VARIABLES
    hdr,            \* request headers and socket address seen by the resolver
    client_ip,      \* value returned by get_real_client_ip
    ip_pc,          \* "idle" before the resolver ran, "done" after
    mapped_dotted,  \* the interpreter writes an IPv4-mapped address as ::ffff:a.b.c.d
    uploads,        \* files in UPLOAD_FOLDER
    thumbs,         \* files in THUMBNAIL_FOLDER
    pc,             \* position of upload_files
    files_left,     \* entries of request.files.getlist('files') not yet iterated
    uploaded_count, \* upload_files local
    failed_count,   \* upload_files local
    cur,            \* upload_files locals for the entry in hand
    req,            \* history: the request in hand, its size and how it ended
    last,           \* history: the entry the loop has just finished, and what became of it
    next_uuid,      \* source of uuid4 values (fresh per call) and creation clock
    resp            \* the response of the GET request answered in the last step

ipvars == <<hdr, client_ip, ip_pc, mapped_dotted>>
upvars == <<uploads, thumbs, pc, files_left, uploaded_count, failed_count,
            cur, req, last, next_uuid>>
vars == <<hdr, client_ip, ip_pc, mapped_dotted, uploads, thumbs, pc, files_left,
          uploaded_count, failed_count, cur, req, last, next_uuid, resp>>

-----------------------------------------------------------------------------
(* Python str operations on character sequences *)

Whitespace == {" "}

RECURSIVE lstrip_chars(_, _)
lstrip_chars(s, cs) ==
    IF s # <<>> /\ Head(s) \in cs THEN lstrip_chars(Tail(s), cs) ELSE s

RECURSIVE rstrip_chars(_, _)
rstrip_chars(s, cs) ==
    IF s # <<>> /\ s[Len(s)] \in cs
    THEN rstrip_chars(SubSeq(s, 1, Len(s) - 1), cs)
    ELSE s

\* str.strip(chars)
strip_chars(s, cs) == rstrip_chars(lstrip_chars(s, cs), cs)

\* str.strip()
strip(s) == strip_chars(s, Whitespace)

Contains(s, c) == \E i \in 1..Len(s) : s[i] = c

FirstIndex(s, c) == CHOOSE i \in 1..Len(s) : s[i] = c /\ \A j \in 1..(i - 1) : s[j] # c

LastIndex(s, c) == CHOOSE i \in 1..Len(s) : s[i] = c /\ \A j \in (i + 1)..Len(s) : s[j] # c

\* str.split(c) for a one-character separator: always at least one piece
RECURSIVE split(_, _)
split(s, c) ==
    IF Contains(s, c)
    THEN LET i == FirstIndex(s, c)
         IN  <<SubSeq(s, 1, i - 1)>> \o split(SubSeq(s, i + 1, Len(s)), c)
    ELSE <<s>>

\* sep.join(parts)
RECURSIVE join(_, _)
join(parts, sep) ==
    IF parts = <<>> THEN <<>>
    ELSE IF Len(parts) = 1 THEN parts[1]
    ELSE parts[1] \o sep \o join(Tail(parts), sep)

\* str.startswith(p)
startswith(s, p) == Len(s) >= Len(p) /\ SubSeq(s, 1, Len(p)) = p

\* str.replace(old, new), old non-empty: every occurrence, left to right
RECURSIVE replace(_, _, _)
replace(s, old, new) ==
    IF s = <<>> THEN <<>>
    ELSE IF startswith(s, old)
         THEN new \o replace(SubSeq(s, Len(old) + 1, Len(s)), old, new)
         ELSE <<Head(s)>> \o replace(Tail(s), old, new)

Lower == <<"a", "b", "c", "d", "e", "f", "g", "h", "i", "j", "k", "l", "m",
           "n", "o", "p", "q", "r", "s", "t", "u", "v", "w", "x", "y", "z">>
Upper == <<"A", "B", "C", "D", "E", "F", "G", "H", "I", "J", "K", "L", "M",
           "N", "O", "P", "Q", "R", "S", "T", "U", "V", "W", "X", "Y", "Z">>
Digits == <<"0", "1", "2", "3", "4", "5", "6", "7", "8", "9">>

Range(f) == {f[i] : i \in DOMAIN f}

IndexOf(seq, c) == CHOOSE i \in 1..Len(seq) : seq[i] = c

\* str.lower()
lower(s) ==
    [i \in 1..Len(s) |->
        IF s[i] \in Range(Upper) THEN Lower[IndexOf(Upper, s[i])] ELSE s[i]]

-----------------------------------------------------------------------------
(* ipaddress.ip_address, as far as the resolver uses it: the version of    *)
(* the parsed address and, for IPv6, its compressed form.  Scope ids       *)
(* ("%eth0") are not modelled; no header value below carries one.          *)

Invalid == <<-1>>

HexDigits == <<"0", "1", "2", "3", "4", "5", "6", "7", "8", "9",
               "a", "b", "c", "d", "e", "f">>

IsDigit(c) == c \in Range(Digits)
IsHex(c) == c \in Range(HexDigits) \/ c \in {"A", "B", "C", "D", "E", "F"}

DigitVal(c) == IndexOf(Digits, c) - 1
HexVal(c) == IndexOf(HexDigits, Head(lower(<<c>>))) - 1

RECURSIVE DecValue(_)
DecValue(s) ==
    IF s = <<>> THEN 0
    ELSE 10 * DecValue(SubSeq(s, 1, Len(s) - 1)) + DigitVal(s[Len(s)])

RECURSIVE HexValue(_)
HexValue(s) ==
    IF s = <<>> THEN 0
    ELSE 16 * HexValue(SubSeq(s, 1, Len(s) - 1)) + HexVal(s[Len(s)])

\* '%x' % n
RECURSIVE HexStr(_)
HexStr(n) ==
    IF n < 16 THEN <<HexDigits[n + 1]>>
    ELSE HexStr(n \div 16) \o <<HexDigits[(n % 16) + 1]>>

\* str(n)
RECURSIVE DecStr(_)
DecStr(n) ==
    IF n < 10 THEN <<Digits[n + 1]>>
    ELSE DecStr(n \div 10) \o <<Digits[(n % 10) + 1]>>

\* IPv4Address._parse_octet: decimal digits only, at most three, no leading
\* zero, at most 255
OctetOK(o) ==
    /\ o # <<>>
    /\ \A i \in 1..Len(o) : IsDigit(o[i])
    /\ Len(o) <= 3
    /\ (o = <<"0">> \/ o[1] # "0")
    /\ DecValue(o) <= 255

\* IPv4Address(s): the four octets, or Invalid
ParseIPv4(s) ==
    LET octets == split(s, ".")
    IN  IF Len(octets) = 4 /\ \A i \in 1..4 : OctetOK(octets[i])
        THEN [i \in 1..4 |-> DecValue(octets[i])]
        ELSE Invalid

\* IPv6Address._parse_hextet
HextetOK(h) ==
    /\ h # <<>>
    /\ \A i \in 1..Len(h) : IsHex(h[i])
    /\ Len(h) <= 4

Zeros(n) == [i \in 1..n |-> 0]

\* IPv6Address._ip_int_from_string after the IPv4 suffix was rewritten:
\* at most one "::", which stands for at least one group
ParseParts(parts) ==
    LET n == Len(parts)
        skips == {i \in 2..(n - 1) : parts[i] = <<>>}
    IN  IF n > 9 \/ Cardinality(skips) > 1 THEN Invalid
        ELSE IF skips = {}
        THEN IF n = 8 /\ \A i \in 1..8 : HextetOK(parts[i])
             THEN [i \in 1..8 |-> HexValue(parts[i])]
             ELSE Invalid
        ELSE LET k == CHOOSE i \in skips : TRUE
                 hi0 == k - 1
                 lo0 == n - k
                 hi == IF parts[1] = <<>> THEN hi0 - 1 ELSE hi0
                 lo == IF parts[n] = <<>> THEN lo0 - 1 ELSE lo0
                 skipped == 8 - (hi + lo)
             IN  IF parts[1] = <<>> /\ hi # 0 THEN Invalid
                 ELSE IF parts[n] = <<>> /\ lo # 0 THEN Invalid
                 ELSE IF skipped < 1 THEN Invalid
                 ELSE IF \E i \in (1..hi) \cup ((n - lo + 1)..n) : ~HextetOK(parts[i])
                 THEN Invalid
                 ELSE [i \in 1..hi |-> HexValue(parts[i])]
                      \o Zeros(skipped)
                      \o [i \in 1..lo |-> HexValue(parts[n - lo + i])]

\* IPv6Address(s): the eight groups, or Invalid
ParseIPv6(s) ==
    LET p0 == split(s, ":")
    IN  IF Len(p0) < 3 THEN Invalid
        ELSE LET tail_part == p0[Len(p0)]
                 v4 == ParseIPv4(tail_part)
             IN  IF Contains(tail_part, ".")
                 THEN IF v4 = Invalid THEN Invalid
                      ELSE ParseParts(SubSeq(p0, 1, Len(p0) - 1)
                                      \o <<HexStr(v4[1] * 256 + v4[2]),
                                           HexStr(v4[3] * 256 + v4[4])>>)
                 ELSE ParseParts(p0)

\* ipaddress.ip_address(s): IPv4 is tried first, then IPv6; version 0 stands
\* for the ValueError
ip_address(s) ==
    IF ParseIPv4(s) # Invalid THEN [version |-> 4, groups |-> ParseIPv4(s)]
    ELSE IF ParseIPv6(s) # Invalid THEN [version |-> 6, groups |-> ParseIPv6(s)]
    ELSE [version |-> 0, groups |-> Invalid]

\* length of the run of zero groups starting at i
RECURSIVE ZeroRun(_, _)
ZeroRun(g, i) ==
    IF i > Len(g) \/ g[i] # 0 THEN 0 ELSE 1 + ZeroRun(g, i + 1)

\* IPv6Address.compressed: lower-case groups without leading zeros, the first
\* longest run of two or more zero groups written "::".  What it gives for an
\* IPv4-mapped address depends on the interpreter: ::ffff:a.b.c.d from
\* Python 3.13 on, the two last groups in hexadecimal before
compressed(g) ==
    LET best == CHOOSE i \in 1..8 :
                    /\ \A j \in 1..8 : ZeroRun(g, j) <= ZeroRun(g, i)
                    /\ \A j \in 1..(i - 1) : ZeroRun(g, j) < ZeroRun(g, i)
        len == ZeroRun(g, best)
        hex(a, b) == join([i \in 1..(b - a + 1) |-> HexStr(g[a + i - 1])], <<":">>)
        quad == join(<<DecStr(g[7] \div 256), DecStr(g[7] % 256),
                       DecStr(g[8] \div 256), DecStr(g[8] % 256)>>, <<".">>)
    IN  IF mapped_dotted /\ SubSeq(g, 1, 6) = <<0, 0, 0, 0, 0, 65535>>
        THEN <<":", ":", "f", "f", "f", "f", ":">> \o quad
        ELSE IF len > 1
        THEN hex(1, best - 1) \o <<":", ":">> \o hex(best + len, 8)
        ELSE hex(1, 8)

-----------------------------------------------------------------------------
(* Client IP resolver: get_real_client_ip and its three local functions *)

UNKNOWN == <<"u", "n", "k", "n", "o", "w", "n">>

MAPPED_PREFIX == <<":", ":", "f", "f", "f", "f", ":">>

\* is_ipv6: a parse failure answers False
is_ipv6(ip_str) == ip_address(ip_str).version = 6

\* simplify_ipv6: the text after "::ffff:" for an IPv6 address written with
\* that prefix, the compressed form for any other IPv6 address, and the text
\* itself for an IPv4 address and for text that does not parse
simplify_ipv6(ip_str) ==
    LET addr == ip_address(ip_str)
    IN  IF addr.version = 6
        THEN IF startswith(ip_str, MAPPED_PREFIX)
             THEN replace(ip_str, MAPPED_PREFIX, <<>>)
             ELSE compressed(addr.groups)
        ELSE ip_str

\* the entries of a comma-separated list, each stripped
Entries(ip_list) ==
    LET raw == split(ip_list, ",") IN [i \in 1..Len(raw) |-> strip(raw[i])]

\* extract_best_ip: the first non-empty entry that is not IPv6, else the
\* first non-empty entry simplified, else "unknown"
extract_best_ip(ip_list) ==
    IF ip_list = <<>> THEN UNKNOWN
    ELSE LET ips == Entries(ip_list)
             first_pass == {i \in 1..Len(ips) : ips[i] # <<>> /\ ~is_ipv6(ips[i])}
             second_pass == {i \in 1..Len(ips) : ips[i] # <<>>}
             Min(S) == CHOOSE i \in S : \A j \in S : i <= j
         IN  IF first_pass # {} THEN ips[Min(first_pass)]
             ELSE IF second_pass # {} THEN simplify_ipv6(ips[Min(second_pass)])
             ELSE UNKNOWN

\* get_real_client_ip with X-Forwarded-For consulted before CF-Connecting-IP
get_real_client_ip_xff_first(h) ==
    IF h.cf_ipv6 # <<>> THEN simplify_ipv6(h.cf_ipv6)
    ELSE IF h.x_forwarded # <<>> THEN extract_best_ip(h.x_forwarded)
    ELSE IF h.cf_ip # <<>> THEN extract_best_ip(h.cf_ip)
    ELSE IF h.x_real_ip # <<>> THEN extract_best_ip(h.x_real_ip)
    ELSE IF h.remote_addr # <<>> THEN simplify_ipv6(h.remote_addr)
    ELSE UNKNOWN

\* get_real_client_ip: the first source that is present (a header that is
\* absent and a header that is empty are both falsy, <<>> here) decides the
\* result; CF-Pseudo-IPv4 only changes the log line
get_real_client_ip(h) ==
    IF h.cf_ipv6 # <<>> THEN simplify_ipv6(h.cf_ipv6)
    ELSE IF h.cf_ip # <<>> THEN extract_best_ip(h.cf_ip)
    ELSE IF h.x_forwarded # <<>> THEN extract_best_ip(h.x_forwarded)
    ELSE IF h.x_real_ip # <<>> THEN extract_best_ip(h.x_real_ip)
    ELSE IF h.remote_addr # <<>> THEN simplify_ipv6(h.remote_addr)
    ELSE UNKNOWN


-----------------------------------------------------------------------------
(* Application configuration *)

UPLOAD_FOLDER == <<"u", "p", "l", "o", "a", "d", "s">>
THUMBNAIL_FOLDER == <<"t", "h", "u", "m", "b", "n", "a", "i", "l", "s">>

ALLOWED_EXTENSIONS ==
    {<<"p", "n", "g">>,
     <<"j", "p", "g">>,
     <<"j", "p", "e", "g">>,
     <<"g", "i", "f">>,
     <<"m", "p", "4">>,
     <<"m", "o", "v">>,
     <<"a", "v", "i">>,
     <<"m", "k", "v">>,
     <<"w", "e", "b", "m">>}

IMAGE_EXTENSIONS ==
    {<<"p", "n", "g">>, <<"j", "p", "g">>, <<"j", "p", "e", "g">>, <<"g", "i", "f">>}

VIDEO_EXTENSIONS ==
    {<<"m", "p", "4">>,
     <<"m", "o", "v">>,
     <<"a", "v", "i">>,
     <<"m", "k", "v">>,
     <<"w", "e", "b", "m">>}

\* a MIME type "type/subtype" is the pair <<type, subtype>>
ALLOWED_MIMETYPES ==
    {<<"image", "png">>, <<"image", "jpeg">>, <<"image", "jpg">>, <<"image", "gif">>,
     <<"video", "mp4">>, <<"video", "quicktime">>, <<"video", "x-msvideo">>,
     <<"video", "x-matroska">>, <<"video", "webm">>}

MAX_FILES_PER_REQUEST == 10

THUMBNAIL_SIZE == <<300, 300>>

-----------------------------------------------------------------------------
(* werkzeug.utils.secure_filename on a POSIX host: path separators become  *)
(* spaces, whitespace-separated words are joined with "_", every character *)
(* outside [A-Za-z0-9_.-] is dropped, leading and trailing "." and "_" are *)
(* stripped.                                                               *)

SafeChars == Range(Lower) \cup Range(Upper) \cup Range(Digits) \cup {"_", ".", "-"}

\* str.split() without a separator: the words between runs of whitespace
RECURSIVE words(_)
words(s) ==
    LET t == lstrip_chars(s, Whitespace)
    IN  IF t = <<>> THEN <<>>
        ELSE IF \E i \in 1..Len(t) : t[i] \in Whitespace
        THEN LET i == CHOOSE k \in 1..Len(t) :
                          t[k] \in Whitespace /\ \A j \in 1..(k - 1) : t[j] \notin Whitespace
             IN  <<SubSeq(t, 1, i - 1)>> \o words(SubSeq(t, i, Len(t)))
        ELSE <<t>>

IsSafeChar(c) == c \in SafeChars

secure_filename(filename) ==
    strip_chars(
        SelectSeq(join(words(replace(filename, <<"/">>, <<" ">>)), <<"_">>), IsSafeChar),
        {".", "_"})

-----------------------------------------------------------------------------
(* Utility functions *)

\* filename.rsplit('.', 1)[1]: the text after the last "."
rsplit_ext(filename) == SubSeq(filename, LastIndex(filename, ".") + 1, Len(filename))

\* filename.rsplit('.', 1)[0]: the text before the last "."
rsplit_stem(filename) == SubSeq(filename, 1, LastIndex(filename, ".") - 1)

\* allowed_file with the test of the extension left out
allowed_file_any_extension(filename) == Contains(filename, ".")

\* allowed_file
allowed_file(filename) ==
    Contains(filename, ".") /\ lower(rsplit_ext(filename)) \in ALLOWED_EXTENSIONS

\* get_file_type (called only on names that contain a ".")
get_file_type(filename) ==
    LET extension == lower(rsplit_ext(filename))
    IN  IF extension \in IMAGE_EXTENSIONS THEN "image"
        ELSE IF extension \in VIDEO_EXTENSIONS THEN "video"
        ELSE "unknown"

(* What the bytes of a file are to the libraries that read them:           *)
(*   mime    what magic.from_file(path, mime=True) reports                 *)
(*   opens   PIL.Image.open reads the header                               *)
(*   verify  img.verify() finds the structure intact                       *)
(*   decode  the pixel data loads and the thumbnail can be written (a       *)
(*           truncated JPEG verifies, then fails to load)                  *)
(*   w, h, mode  size and colour mode of the opened image                  *)
Content ==
    [png_rgba    |-> [mime |-> <<"image", "png">>, opens |-> TRUE, verify |-> TRUE,
                      decode |-> TRUE, w |-> 600, h |-> 400, mode |-> "RGBA"],
     gif_p       |-> [mime |-> <<"image", "gif">>, opens |-> TRUE, verify |-> TRUE,
                      decode |-> TRUE, w |-> 30, h |-> 50, mode |-> "P"],
     jpeg_trunc  |-> [mime |-> <<"image", "jpeg">>, opens |-> TRUE, verify |-> TRUE,
                      decode |-> FALSE, w |-> 200, h |-> 1000, mode |-> "RGB"],
     png_corrupt |-> [mime |-> <<"image", "png">>, opens |-> TRUE, verify |-> FALSE,
                      decode |-> FALSE, w |-> 600, h |-> 400, mode |-> "RGB"],
     mp4         |-> [mime |-> <<"video", "mp4">>, opens |-> FALSE, verify |-> FALSE,
                      decode |-> FALSE, w |-> 0, h |-> 0, mode |-> "none"],
     html        |-> [mime |-> <<"text", "html">>, opens |-> FALSE, verify |-> FALSE,
                      decode |-> FALSE, w |-> 0, h |-> 0, mode |-> "none"]]

\* validate_file_content: magic_ok is whether magic.from_file returned (any
\* exception is caught and answers False)
validate_file_content(c, magic_ok) ==
    IF ~magic_ok THEN FALSE
    ELSE IF c.mime \notin ALLOWED_MIMETYPES THEN FALSE
    ELSE IF c.mime[1] = "image" THEN c.opens /\ c.verify
    ELSE IF c.mime[1] = "video" THEN TRUE
    ELSE FALSE

Abs(n) == IF n < 0 THEN -n ELSE n

Max(a, b) == IF a >= b THEN a ELSE b

\* Image.thumbnail((300, 300)): the size kept when it fits, else the largest
\* size within the box that keeps the aspect ratio, each side rounded to the
\* floor or the ceiling, whichever keeps the ratio closer, and at least 1
thumbnail_size(w, h) ==
    LET x == THUMBNAIL_SIZE[1]
        y == THUMBNAIL_SIZE[2]
    IN  IF x >= w /\ y >= h THEN <<w, h>>
        ELSE IF x * h >= w * y
        THEN LET f == (y * w) \div h
                 c == IF (y * w) % h = 0 THEN f ELSE f + 1
                 n == IF Abs(y * w - f * h) <= Abs(y * w - c * h) THEN f ELSE c
             IN  <<Max(n, 1), y>>
        ELSE LET f == (x * h) \div w
                 c == IF (x * h) % w = 0 THEN f ELSE f + 1
                 n == IF f = 0 \/ Abs(w * f - x * h) * c <= Abs(w * c - x * h) * f
                      THEN f ELSE c
             IN  <<x, Max(n, 1)>>

NoThumbnail == [w |-> 0, h |-> 0, format |-> "none", mode |-> "none", box |-> <<0, 0, 0, 0>>]

\* create_thumbnail writing the resized image itself instead of the canvas
create_thumbnail_no_canvas(c) ==
    IF ~c.opens \/ ~c.decode THEN NoThumbnail
    ELSE LET size == thumbnail_size(c.w, c.h)
         IN  [w |-> size[1], h |-> size[2], format |-> "JPEG", mode |-> "RGB",
              box |-> <<0, 0, size[1], size[2]>>]

\* create_thumbnail: the file written to thumbnail_path, or NoThumbnail when
\* an exception made it return False.  box is where the resized image lies
\* on the white canvas: <<x, y, width, height>>
create_thumbnail(c) ==
    IF ~c.opens \/ ~c.decode THEN NoThumbnail
    ELSE LET size == thumbnail_size(c.w, c.h)
             x == (THUMBNAIL_SIZE[1] - size[1]) \div 2
             y == (THUMBNAIL_SIZE[2] - size[2]) \div 2
         IN  [w |-> THUMBNAIL_SIZE[1], h |-> THUMBNAIL_SIZE[2], format |-> "JPEG",
              mode |-> "RGB", box |-> <<x, y, size[1], size[2]>>]

\* uuid.uuid4().hex: a fresh hexadecimal text per call
uuid_hex(n) == HexStr(n)

\* f"{uuid.uuid4().hex}_{original_filename}"
stored_filename(n, original_filename) == uuid_hex(n) \o <<"_">> \o original_filename

\* f"thumb_{filename.rsplit('.', 1)[0]}.jpg"
thumbnail_filename(filename) ==
    <<"t", "h", "u", "m", "b", "_">> \o rsplit_stem(filename) \o <<".", "j", "p", "g">>


-----------------------------------------------------------------------------
(* Bounds of the model and the inputs drawn *)

MaxBatch == 2       \* entries of a request that is within the cap
OverCap == 1        \* how far over the cap a request may be
MaxSaves == 1       \* entries with an allowed name sent in a run

\* len(request.files.getlist('files')): small batches, and batches over the cap
RequestSizes ==
    (0..MaxBatch) \cup ((MAX_FILES_PER_REQUEST + 1)..(MAX_FILES_PER_REQUEST + OverCap))

\* file.filename as the client sends it
FILENAMES ==
    {<<>>,
     <<".", ".">>,
     <<".", "p", "n", "g">>,
     <<"a", ".", "e", "x", "e">>,
     <<".", ".", "/", "a", ".", "P", "N", "G">>,
     <<"a", ".", "m", "p", "4">>}

CONTENTS == DOMAIN Content

\* names asked of the file routes beside the names of the files stored
PROBE_NAMES ==
    {<<".", ".">>,
     <<".", ".", "/", ".", ".", "/", "e", "t", "c", "/", "p", "a", "s", "s", "w", "d">>}

\* files of the host outside the two stores, as paths from the working
\* directory of the application
OUTSIDE_FILES ==
    {<<<<"a", "p", "p", ".", "p", "y">>>>,
     <<<<".", ".">>, <<"e", "t", "c">>, <<"p", "a", "s", "s", "w", "d">>>>}

-----------------------------------------------------------------------------
(* POST /upload: upload_files *)

NoEntry == [filename |-> <<>>, original |-> <<>>, name |-> <<>>, content |-> "none"]

NoRequest == [n |-> 0, status |-> "none", nonempty |-> 0, uploads0 |-> {}, thumbs0 |-> {}]

NoLast ==
    [filename |-> <<>>, stored |-> <<>>, content |-> "none", outcome |-> "none",
     thumb |-> "none", failed_before |-> 0, uploaded_before |-> 0]

NoResponse ==
    [kind |-> "none", route |-> <<>>, asked |-> <<>>, path |-> <<>>,
     validated |-> TRUE, files |-> <<>>]

Names(store) == {f.name : f \in store}

FileNamed(store, name) == CHOOSE f \in store : f.name = name

\* history: how the entry in hand ended, and the counters before it
Handled(filename, stored, content, outcome, thumb) ==
    [filename |-> filename, stored |-> stored, content |-> content,
     outcome |-> outcome, thumb |-> thumb,
     failed_before |-> failed_count, uploaded_before |-> uploaded_count]

\* history: the content of a store when a request of more than
\* MAX_FILES_PER_REQUEST entries arrived (not kept for smaller requests)
Kept(n, store) == IF n > MAX_FILES_PER_REQUEST THEN store ELSE {}

\* the cap test with the limit one too high
too_many_files_off_by_one(n) == n > MAX_FILES_PER_REQUEST + 1

\* len(files) > MAX_FILES_PER_REQUEST
too_many_files(n) == n > MAX_FILES_PER_REQUEST

\* The request arrives without a 'files' field: flash and redirect
ReceiveNoFiles ==
    /\ pc \in {"idle", "done", "aborted"}
    /\ req' = [n |-> 0, status |-> "no_files", nonempty |-> 0,
               uploads0 |-> {}, thumbs0 |-> {}]
    /\ pc' = "done"
    /\ files_left' = 0
    /\ uploaded_count' = 0
    /\ failed_count' = 0
    /\ last' = NoLast
    /\ cur' = NoEntry
    /\ resp' = NoResponse
    /\ UNCHANGED <<uploads, thumbs, next_uuid>>
    /\ UNCHANGED ipvars

\* The request arrives with n entries: rejected whole when over the cap,
\* else the counters are cleared and the loop begins.  A request that enters
\* the loop is taken only while a uuid is left for one of its files
Receive ==
    /\ pc \in {"idle", "done", "aborted"}
    /\ \E n \in RequestSizes :
        IF too_many_files(n)
        THEN /\ pc' = "done"
             /\ files_left' = 0
             /\ req' = [n |-> n, status |-> "too_many", nonempty |-> 0,
                        uploads0 |-> Kept(n, uploads), thumbs0 |-> Kept(n, thumbs)]
        ELSE /\ next_uuid <= MaxSaves
             /\ pc' = "loop"
             /\ files_left' = n
             /\ req' = [n |-> n, status |-> "processing", nonempty |-> 0,
                        uploads0 |-> Kept(n, uploads), thumbs0 |-> Kept(n, thumbs)]
    /\ uploaded_count' = 0
    /\ failed_count' = 0
    /\ last' = NoLast
    /\ cur' = NoEntry
    /\ resp' = NoResponse
    /\ UNCHANGED <<uploads, thumbs, next_uuid>>
    /\ UNCHANGED ipvars

\* "if file and file.filename != ''" is false: the entry is passed over
SkipEmpty ==
    /\ pc = "loop"
    /\ files_left > 0
    /\ \E filename \in FILENAMES :
        /\ filename = <<>>
        /\ last' = Handled(filename, <<>>, "none", "skipped", "none")
    /\ files_left' = files_left - 1
    /\ resp' = NoResponse
    /\ UNCHANGED <<uploads, thumbs, pc, uploaded_count, failed_count, cur, req, next_uuid>>
    /\ UNCHANGED ipvars

\* secure_filename leaves nothing of the name
RejectName ==
    /\ pc = "loop"
    /\ files_left > 0
    /\ \E filename \in FILENAMES :
        /\ filename # <<>>
        /\ secure_filename(filename) = <<>>
        /\ last' = Handled(filename, <<>>, "none", "bad_name", "none")
    /\ failed_count' = failed_count + 1
    /\ files_left' = files_left - 1
    /\ req' = [req EXCEPT !.nonempty = @ + 1]
    /\ resp' = NoResponse
    /\ UNCHANGED <<uploads, thumbs, pc, uploaded_count, cur, next_uuid>>
    /\ UNCHANGED ipvars

\* allowed_file refuses the sanitized name
RejectExtension ==
    /\ pc = "loop"
    /\ files_left > 0
    /\ \E filename \in FILENAMES :
        /\ filename # <<>>
        /\ secure_filename(filename) # <<>>
        /\ ~allowed_file(secure_filename(filename))
        /\ last' = Handled(filename, <<>>, "none", "bad_ext", "none")
    /\ failed_count' = failed_count + 1
    /\ files_left' = files_left - 1
    /\ req' = [req EXCEPT !.nonempty = @ + 1]
    /\ resp' = NoResponse
    /\ UNCHANGED <<uploads, thumbs, pc, uploaded_count, cur, next_uuid>>
    /\ UNCHANGED ipvars

\* file.save(file_path) under a fresh stored name, straight into
\* UPLOAD_FOLDER.  It returns ("ok"), or raises after writing part of the
\* file ("partial"), or raises before creating it ("nothing").  checked and
\* counted are history: what validate_file_content has answered about the
\* file ("no" before it is asked) and whether the file was counted as uploaded
SaveFile ==
    /\ pc = "loop"
    /\ files_left > 0
    /\ next_uuid <= MaxSaves
    /\ \E filename \in FILENAMES, content \in CONTENTS, saved \in {"ok", "partial", "nothing"} :
        LET original_filename == secure_filename(filename)
            name == stored_filename(next_uuid, original_filename)
        IN  /\ filename # <<>>
            /\ original_filename # <<>>
            /\ allowed_file(original_filename)
            /\ cur' = [filename |-> filename, original |-> original_filename,
                       name |-> name, content |-> content]
            /\ uploads' = IF saved = "nothing" THEN uploads
                          ELSE uploads \cup {[name |-> name, content |-> content,
                                              checked |-> "no",
                                              counted |-> FALSE,
                                              ctime |-> next_uuid]}
            /\ pc' = IF saved = "ok" THEN "saved" ELSE "except"
    /\ next_uuid' = next_uuid + 1
    /\ files_left' = files_left - 1
    /\ req' = [req EXCEPT !.nonempty = @ + 1]
    /\ last' = NoLast
    /\ resp' = NoResponse
    /\ UNCHANGED <<thumbs, uploaded_count, failed_count>>
    /\ UNCHANGED ipvars

\* validate_file_content answers False: os.remove(file_path), which removes
\* the file or raises
RejectContent ==
    /\ pc = "saved"
    /\ \E magic_ok \in BOOLEAN, removed \in BOOLEAN :
        /\ ~validate_file_content(Content[cur.content], magic_ok)
        /\ IF removed
           THEN /\ uploads' = {f \in uploads : f.name # cur.name}
                /\ failed_count' = failed_count + 1
                /\ last' = Handled(cur.filename, cur.name, cur.content, "invalid", "none")
                /\ pc' = "loop"
                /\ cur' = NoEntry
           ELSE /\ uploads' = {IF f.name = cur.name THEN [f EXCEPT !.checked = "invalid"]
                               ELSE f : f \in uploads}
                /\ pc' = "except"
                /\ UNCHANGED <<failed_count, last, cur>>
    /\ resp' = NoResponse
    /\ UNCHANGED <<thumbs, files_left, uploaded_count, req, next_uuid>>
    /\ UNCHANGED ipvars

\* validate_file_content answers True: get_file_hash, which returns or
\* raises; then, for a name with an image extension, create_thumbnail; then
\* the file is counted
AcceptFile ==
    /\ pc = "saved"
    /\ \E magic_ok \in BOOLEAN, hashed \in BOOLEAN :
        /\ validate_file_content(Content[cur.content], magic_ok)
        /\ uploads' = {IF f.name = cur.name
                       THEN [f EXCEPT !.checked = "valid", !.counted = hashed]
                       ELSE f : f \in uploads}
        /\ IF ~hashed
           THEN /\ pc' = "except"
                /\ UNCHANGED <<thumbs, uploaded_count, last, cur>>
           ELSE LET thumb == IF get_file_type(cur.name) = "image"
                             THEN create_thumbnail(Content[cur.content])
                             ELSE NoThumbnail
                    made == IF get_file_type(cur.name) # "image" THEN "none"
                            ELSE IF thumb = NoThumbnail THEN "failed" ELSE "created"
                IN  /\ thumbs' = IF made = "created"
                                 THEN thumbs \cup {[name |-> thumbnail_filename(cur.name),
                                                    source |-> cur.name,
                                                    image |-> thumb]}
                                 ELSE thumbs
                    /\ uploaded_count' = uploaded_count + 1
                    /\ last' = Handled(cur.filename, cur.name, cur.content, "uploaded", made)
                    /\ pc' = "loop"
                    /\ cur' = NoEntry
    /\ resp' = NoResponse
    /\ UNCHANGED <<files_left, failed_count, req, next_uuid>>
    /\ UNCHANGED ipvars

\* except Exception: the file is removed if it exists, and counted as
\* failed.  os.remove inside the handler may raise too, and nothing catches
\* that: the exception leaves upload_files, and its locals go with it
HandleException ==
    /\ pc = "except"
    /\ \E removed \in BOOLEAN :
        IF cur.name \notin Names(uploads) \/ removed
        THEN /\ uploads' = {f \in uploads : f.name # cur.name}
             /\ failed_count' = failed_count + 1
             /\ last' = Handled(cur.filename, cur.name, cur.content, "error", "none")
             /\ pc' = "loop"
             /\ cur' = NoEntry
             /\ UNCHANGED <<req, files_left, uploaded_count>>
        ELSE /\ pc' = "aborted"
             /\ req' = [req EXCEPT !.status = "aborted"]
             /\ cur' = NoEntry
             /\ last' = NoLast
             /\ files_left' = 0
             /\ uploaded_count' = 0
             /\ failed_count' = 0
             /\ UNCHANGED uploads
    /\ resp' = NoResponse
    /\ UNCHANGED <<thumbs, next_uuid>>
    /\ UNCHANGED ipvars

\* The loop is over: the counts are reported and the client redirected;
\* the counters stay as reported until the next request
ReportResults ==
    /\ pc = "loop"
    /\ files_left = 0
    /\ pc' = "done"
    /\ req' = [req EXCEPT !.status = "reported"]
    /\ resp' = NoResponse
    /\ last' = NoLast
    /\ UNCHANGED <<uploads, thumbs, files_left, uploaded_count, failed_count, cur,
                   next_uuid>>
    /\ UNCHANGED ipvars

-----------------------------------------------------------------------------
(* GET /uploads/<filename> and GET /thumbnails/<filename> *)

\* a path is the sequence of its components
FilePaths ==
    {<<UPLOAD_FOLDER, f.name>> : f \in uploads}
    \cup {<<THUMBNAIL_FOLDER, f.name>> : f \in thumbs}
    \cup OUTSIDE_FILES

NotFound(route, asked) ==
    [kind |-> "404", route |-> route, asked |-> asked, path |-> <<>>,
     validated |-> TRUE, files |-> <<>>]

\* posixpath.normpath on the components of a relative path: "" and "." are
\* dropped, ".." cancels the component before it, a leading ".." stays
RECURSIVE normpath(_, _)
normpath(done, rest) ==
    IF rest = <<>> THEN done
    ELSE LET c == Head(rest)
         IN  IF c = <<>> \/ c = <<".">> THEN normpath(done, Tail(rest))
             ELSE IF c = <<".", ".">> /\ done # <<>> /\ done[Len(done)] # <<".", ".">>
             THEN normpath(SubSeq(done, 1, Len(done) - 1), Tail(rest))
             ELSE normpath(Append(done, c), Tail(rest))

\* werkzeug.security.safe_join: <<>> (None) for an absolute path and for a
\* path that leaves the directory
safe_join(directory, filename) ==
    LET comps == normpath(<<>>, split(filename, "/"))
    IN  IF filename # <<>> /\ Head(filename) = "/" THEN <<>>
        ELSE IF comps # <<>> /\ comps[1] = <<".", ".">> THEN <<>>
        ELSE <<directory>> \o comps

\* flask.send_from_directory: the file at the joined path, 404 when there
\* is no such file.  validated is history: whether the file served had
\* passed validate_file_content when it was served
send_from_directory(directory, filename) ==
    LET path == safe_join(directory, filename)
    IN  IF path = <<>> \/ path \notin FilePaths THEN NotFound(directory, filename)
        ELSE [kind |-> "file", route |-> directory, asked |-> filename, path |-> path,
              validated |-> IF path[1] = UPLOAD_FOLDER /\ Len(path) = 2
                                /\ path[2] \in Names(uploads)
                            THEN FileNamed(uploads, path[2]).checked = "valid"
                            ELSE TRUE,
              files |-> <<>>]

\* the <filename> converter of the route matches one path segment
route_matches(filename) == filename # <<>> /\ ~Contains(filename, "/")

\* uploaded_file
uploaded_file(filename) ==
    LET name == secure_filename(filename)
    IN  IF name = <<>> THEN NotFound(UPLOAD_FOLDER, filename)
        ELSE send_from_directory(UPLOAD_FOLDER, name)

\* thumbnail_file reading the upload folder
thumbnail_file_wrong_folder(filename) ==
    LET name == secure_filename(filename)
    IN  IF name = <<>> THEN NotFound(THUMBNAIL_FOLDER, filename)
        ELSE [send_from_directory(UPLOAD_FOLDER, name) EXCEPT !.route = THUMBNAIL_FOLDER]

\* thumbnail_file
thumbnail_file(filename) ==
    LET name == secure_filename(filename)
    IN  IF name = <<>> THEN NotFound(THUMBNAIL_FOLDER, filename)
        ELSE send_from_directory(THUMBNAIL_FOLDER, name)

RequestNames == PROBE_NAMES \cup Names(uploads) \cup Names(thumbs)

GetUpload ==
    /\ resp = NoResponse
    /\ \E filename \in RequestNames :
        resp' = IF route_matches(filename)
                THEN [uploaded_file(filename) EXCEPT !.asked = filename]
                ELSE NotFound(UPLOAD_FOLDER, filename)
    /\ UNCHANGED upvars
    /\ UNCHANGED ipvars

GetThumbnail ==
    /\ resp = NoResponse
    /\ \E filename \in RequestNames :
        resp' = IF route_matches(filename)
                THEN [thumbnail_file(filename) EXCEPT !.asked = filename]
                ELSE NotFound(THUMBNAIL_FOLDER, filename)
    /\ UNCHANGED upvars
    /\ UNCHANGED ipvars

-----------------------------------------------------------------------------
(* GET /: index *)

\* the dictionary index builds for one listed file; upload_time is the
\* creation clock of the file, validated is history
file_info(filename) ==
    LET f == FileNamed(uploads, filename)
        file_type == get_file_type(filename)
        thumbnail_name == IF file_type = "image" THEN thumbnail_filename(filename) ELSE <<>>
    IN  [name |-> filename,
         type |-> file_type,
         upload_time |-> f.ctime,
         has_thumbnail |-> (file_type = "image" /\ thumbnail_name \in Names(thumbs)),
         thumbnail_name |-> thumbnail_name,
         validated |-> f.checked = "valid"]

\* files.sort(key=upload_time, reverse=True); creation times are distinct
RECURSIVE sort_recent_first(_)
sort_recent_first(infos) ==
    IF infos = {} THEN <<>>
    ELSE LET newest == CHOOSE i \in infos : \A j \in infos : j.upload_time <= i.upload_time
         IN  <<newest>> \o sort_recent_first(infos \ {newest})

\* index: os.listdir(UPLOAD_FOLDER), the loop over the names with an allowed
\* extension, the sort and the render, the directory read at one instant
GetIndex ==
    /\ resp = NoResponse
    /\ LET shown == {n \in Names(uploads) : allowed_file(n)}
       IN  resp' = [NoResponse EXCEPT !.kind = "gallery",
                        !.files = sort_recent_first({file_info(n) : n \in shown})]
    /\ UNCHANGED upvars
    /\ UNCHANGED ipvars

-----------------------------------------------------------------------------
(* The resolver on a request *)

NoHeaders ==
    [cf_ipv6 |-> <<>>, cf_ip |-> <<>>, x_forwarded |-> <<>>, x_real_ip |-> <<>>,
     remote_addr |-> <<>>]

\* CF-Connecting-IPv6 (<<>>: not sent)
CF_IPV6_VALUES ==
    {<<>>,
     <<"2", "0", "0", "1", ":", "0", "d", "b", "8", ":", "0", ":", "0", ":", "0", ":", "0", ":", "0", ":", "1">>,
     <<":", ":", "f", "f", "f", "f", ":", "2", "0", "3", ".", "0", ".", "1", "1", "3", ".", "5">>,
     <<":", ":", "F", "F", "F", "F", ":", "2", "0", "3", ".", "0", ".", "1", "1", "3", ".", "5">>,
     <<":", ":", "f", "f", "f", "f", ":", "c", "b", "0", "0", ":", "7", "1", "0", "5">>,
     <<"z", "z">>}

\* CF-Connecting-IP
CF_IP_VALUES ==
    {<<>>,
     <<"2", "0", "3", ".", "0", ".", "1", "1", "3", ".", "9">>,
     <<"2", "4", "0", ".", "0", ".", "0", ".", "1">>,
     <<"z", "z">>}

\* X-Forwarded-For
X_FORWARDED_VALUES ==
    {<<>>,
     <<"2", "0", "0", "1", ":", "d", "b", "8", ":", ":", "1", ",", " ", "2", "0", "3", ".", "0", ".", "1", "1", "3", ".", "9">>,
     <<"z", "z", ",", " ", "2", "0", "3", ".", "0", ".", "1", "1", "3", ".", "9">>,
     <<"2", "0", "0", "1", ":", "0", "d", "b", "8", ":", ":", "1", " ", ",", " ", ":", ":", "1">>,
     <<":", ":", "f", "f", "f", "f", ":", "2", "0", "3", ".", "0", ".", "1", "1", "3", ".", "5">>,
     <<" ", ",", " ">>,
     <<"z", "z">>}

\* X-Real-IP
X_REAL_IP_VALUES ==
    {<<>>,
     <<"1", "9", "8", ".", "5", "1", ".", "1", "0", "0", ".", "7">>,
     <<":", ":", "1", ",", " ", "1", "9", "8", ".", "5", "1", ".", "1", "0", "0", ".", "7">>,
     <<"z", "z">>}

\* request.remote_addr
REMOTE_ADDR_VALUES ==
    {<<>>,
     <<"1", "2", "7", ".", "0", ".", "0", ".", "1">>,
     <<"0", ":", "0", ":", "0", ":", "0", ":", "0", ":", "f", "f", "f", "f", ":", "2", "0", "3", ".", "0", ".", "1", "1", "3", ".", "5">>,
     <<":", ":", "1">>}

Resolve ==
    /\ ip_pc = "idle"
    /\ client_ip' = get_real_client_ip(hdr)
    /\ ip_pc' = "done"
    /\ UNCHANGED <<hdr, mapped_dotted>>
    /\ UNCHANGED upvars
    /\ UNCHANGED resp

-----------------------------------------------------------------------------
(* Specifications *)

InitStores ==
    /\ uploads = {}
    /\ thumbs = {}
    /\ pc = "idle"
    /\ files_left = 0
    /\ uploaded_count = 0
    /\ failed_count = 0
    /\ cur = NoEntry
    /\ req = NoRequest
    /\ last = NoLast
    /\ next_uuid = 1
    /\ resp = NoResponse

Init ==
    /\ InitStores
    /\ hdr = NoHeaders
    /\ client_ip = <<>>
    /\ ip_pc = "idle"
    /\ mapped_dotted = FALSE

Next ==
    \/ ReceiveNoFiles
    \/ Receive
    \/ SkipEmpty
    \/ RejectName
    \/ RejectExtension
    \/ SaveFile
    \/ RejectContent
    \/ AcceptFile
    \/ HandleException
    \/ ReportResults
    \/ GetUpload
    \/ GetThumbnail
    \/ GetIndex

\* the server: one upload request in hand at a time, GET requests at any point
Spec == Init /\ [][Next]_vars

InitIP ==
    /\ InitStores
    /\ hdr \in [cf_ipv6 : CF_IPV6_VALUES, cf_ip : CF_IP_VALUES,
                x_forwarded : X_FORWARDED_VALUES, x_real_ip : X_REAL_IP_VALUES,
                remote_addr : REMOTE_ADDR_VALUES]
    /\ client_ip = <<>>
    /\ ip_pc = "idle"
    /\ mapped_dotted \in BOOLEAN

NextIP == Resolve

\* the resolver applied to every combination of the header values above
SpecIP == InitIP /\ [][NextIP]_vars

-----------------------------------------------------------------------------
(* Properties of POST /upload and the stores, under Spec *)

\* the extensions the specification allows
ClaimedExtensions ==
    {<<"p", "n", "g">>,
     <<"j", "p", "g">>,
     <<"j", "p", "e", "g">>,
     <<"g", "i", "f">>,
     <<"m", "p", "4">>,
     <<"m", "o", "v">>,
     <<"a", "v", "i">>,
     <<"m", "k", "v">>,
     <<"w", "e", "b", "m">>}

\* a name without an extension, or with one outside the allowed set
Disallowed(name) ==
    \/ ~Contains(name, ".")
    \/ lower(SubSeq(name, LastIndex(name, ".") + 1, Len(name))) \notin ClaimedExtensions

ImageExtension(name) ==
    /\ Contains(name, ".")
    /\ lower(SubSeq(name, LastIndex(name, ".") + 1, Len(name)))
           \in {<<"p", "n", "g">>, <<"j", "p", "g">>, <<"j", "p", "e", "g">>, <<"g", "i", "f">>}

ExactThumbnail(t) == t.image.w = 300 /\ t.image.h = 300 /\ t.image.format = "JPEG"

\* C1: a request of more than 10 entries is rejected whole, before any entry
\* is looked at: both stores are as they were when it arrived, nothing was
\* counted and no entry was handled
C1_OverCapRejectedWhole ==
    req.n > 10 =>
        /\ pc = "done"
        /\ req.status = "too_many"
        /\ uploads = req.uploads0
        /\ thumbs = req.thumbs0
        /\ uploaded_count = 0
        /\ failed_count = 0
        /\ last = NoLast
        /\ cur = NoEntry

\* a request of 11 entries was rejected while the stores held a file and its
\* thumbnail
C1_Witness ==
    /\ req.n = 11
    /\ pc = "done"
    /\ uploads # {}
    /\ thumbs # {}

\* C2: an entry whose sanitized name has no extension or a disallowed one is
\* rejected and counted as failed (and as nothing else), and no file of such
\* a name is ever in the upload store, in the handler's hands or the source
\* of a thumbnail
C2_DisallowedNeverStored ==
    /\ (last.filename # <<>> /\ Disallowed(secure_filename(last.filename))) =>
           /\ last.outcome \in {"bad_name", "bad_ext"}
           /\ last.stored = <<>>
           /\ failed_count = last.failed_before + 1
           /\ uploaded_count = last.uploaded_before
    /\ \A f \in uploads : ~Disallowed(f.name)
    /\ \A t \in thumbs : ~Disallowed(t.source)
    /\ cur # NoEntry => ~Disallowed(cur.original)

\* a.exe was refused as the second entry of a batch whose first entry is stored
C2_Witness ==
    /\ last.filename = <<"a", ".", "e", "x", "e">>
    /\ last.outcome = "bad_ext"
    /\ failed_count = 1
    /\ uploaded_count = 1
    /\ uploads # {}

\* C3: a file with an allowed extension whose sniffed MIME type is not
\* allowed is counted as failed and never as uploaded, has no thumbnail, and
\* is gone from the upload store by the time the request is over
C3_BadMimeRejected ==
    /\ \A f \in uploads :
           (f.checked = "invalid" /\ Content[f.content].mime \notin ALLOWED_MIMETYPES) =>
               /\ pc = "except"
               /\ cur.name = f.name
               /\ ~f.counted
               /\ \A t \in thumbs : t.source # f.name
    /\ (last.content # "none" /\ Content[last.content].mime \notin ALLOWED_MIMETYPES) =>
           /\ last.outcome \in {"invalid", "error"}
           /\ failed_count = last.failed_before + 1
           /\ uploaded_count = last.uploaded_before

\* C4 as claimed: every counted file that passed validation with an image
\* MIME type has a 300x300 JPEG thumbnail
C4_EveryValidImageHasThumbnail ==
    \A f \in uploads :
        (f.checked = "valid" /\ f.counted /\ Content[f.content].mime[1] = "image") =>
            \E t \in thumbs : t.source = f.name /\ ExactThumbnail(t)

\* C4 amended: every counted file stored under an image extension that
\* passed validation and that PIL can decode has the thumbnail
\* thumb_<stem>.jpg, 300x300 and JPEG; every thumbnail in the store is
\* 300x300 and JPEG and belongs to such a file; a counted image that does
\* not decode, or that is stored under a video extension, has none
C4_DecodableImageHasThumbnail ==
    /\ \A f \in uploads :
           (f.checked = "valid" /\ f.counted /\ ImageExtension(f.name)
                /\ Content[f.content].opens /\ Content[f.content].decode) =>
               \E t \in thumbs :
                   /\ t.source = f.name
                   /\ t.name = <<"t", "h", "u", "m", "b", "_">> \o SubSeq(f.name, 1, LastIndex(f.name, ".") - 1)
                                  \o <<".", "j", "p", "g">>
                   /\ ExactThumbnail(t)
    /\ \A t \in thumbs :
           /\ ExactThumbnail(t)
           /\ t.image.box[1] >= 0 /\ t.image.box[1] + t.image.box[3] <= 300
           /\ t.image.box[2] >= 0 /\ t.image.box[2] + t.image.box[4] <= 300
           /\ \E f \in uploads : f.name = t.source /\ f.checked = "valid" /\ ImageExtension(f.name)
    /\ \A f \in uploads :
           (f.checked = "valid" /\ f.counted
                /\ (~ImageExtension(f.name) \/ ~Content[f.content].opens
                        \/ ~Content[f.content].decode)) =>
               \A t \in thumbs : t.source # f.name

\* a 600x400 PNG was counted and its thumbnail holds it as 300x200, centred
C4_Witness ==
    /\ last.outcome = "uploaded"
    /\ last.thumb = "created"
    /\ last.content = "png_rgba"
    /\ \E t \in thumbs : t.source = last.stored /\ t.image.box = <<0, 50, 300, 200>>

\* C5: a file route answers with a file of its own store or with 404; a
\* name with a path component, and a name of which sanitization leaves
\* nothing, is answered 404; nothing outside the store is served
C5_ServedFromOwnStoreOr404 ==
    resp.kind \in {"file", "404"} =>
        /\ resp.route \in {UPLOAD_FOLDER, THUMBNAIL_FOLDER}
        /\ resp.kind = "file" =>
               /\ Len(resp.path) = 2
               /\ resp.path[1] = resp.route
               /\ resp.route = UPLOAD_FOLDER => resp.path[2] \in Names(uploads)
               /\ resp.route = THUMBNAIL_FOLDER => resp.path[2] \in Names(thumbs)
               /\ resp.path \notin OUTSIDE_FILES
        /\ Contains(resp.asked, "/") => resp.kind = "404"
        /\ secure_filename(resp.asked) = <<>> => resp.kind = "404"

\* ../../etc/passwd was asked of a store that holds a file, and answered 404
C5_Witness ==
    /\ resp.kind = "404"
    /\ resp.asked = <<".", ".", "/", ".", ".", "/", "e", "t", "c", "/", "p", "a", "s", "s", "w", "d">>
    /\ resp.route = UPLOAD_FOLDER
    /\ uploads # {}

\* C9: no file aborts the batch; when the counts are reported every
\* non-empty entry was counted once; no file counted as failed is in the
\* upload store
C9_BatchNeverAborted ==
    /\ pc # "aborted"
    /\ (pc = "done" /\ req.status = "reported") =>
           /\ files_left = 0
           /\ uploaded_count + failed_count = req.nonempty
    /\ last.outcome \in {"bad_name", "bad_ext", "invalid", "error"} =>
           last.stored \notin Names(uploads)

\* C10: what the gallery lists and what /uploads/<name> serves has passed
\* validation
C10_OnlyValidatedVisible ==
    /\ resp.kind = "gallery" => \A i \in 1..Len(resp.files) : resp.files[i].validated
    /\ (resp.kind = "file" /\ resp.route = UPLOAD_FOLDER) => resp.validated

-----------------------------------------------------------------------------
(* Properties of the resolver, under SpecIP *)

Sources(h) == <<h.cf_ipv6, h.cf_ip, h.x_forwarded, h.x_real_ip, h.remote_addr>>

\* the first source that is present, 0 when none is
FirstPresent(h) ==
    IF \A i \in 1..5 : Sources(h)[i] = <<>> THEN 0
    ELSE CHOOSE i \in 1..5 :
             Sources(h)[i] # <<>> /\ \A j \in 1..(i - 1) : Sources(h)[j] = <<>>

\* CF-Connecting-IP, X-Forwarded-For and X-Real-IP are read as lists
IsListSource(i) == i \in {2, 3, 4}

IsIPv4Text(s) == ParseIPv4(s) # Invalid

Parses(s) == ParseIPv4(s) # Invalid \/ ParseIPv6(s) # Invalid

\* the trimmed entries of a list that are not blank
NonBlank(v) == SelectSeq(Entries(v), LAMBDA e : e # <<>>)

\* a.b.c.d of the IPv4-mapped address with groups g
Dotted(g) ==
    DecStr(g[7] \div 256) \o <<".">> \o DecStr(g[7] % 256) \o <<".">>
        \o DecStr(g[8] \div 256) \o <<".">> \o DecStr(g[8] % 256)

IsMapped(s) ==
    /\ ParseIPv4(s) = Invalid
    /\ ParseIPv6(s) # Invalid
    /\ SubSeq(ParseIPv6(s), 1, 6) = <<0, 0, 0, 0, 0, 65535>>

\* C6: from X-Forwarded-For, or from X-Real-IP when that is the list read,
\* the result is the first IPv4 address of the list wherever it stands, and
\* the first entry simplified when the list holds no IPv4 address
C6_FirstIPv4OfList ==
    (ip_pc = "done" /\ FirstPresent(hdr) \in {3, 4}) =>
        LET ips == Entries(Sources(hdr)[FirstPresent(hdr)])
            v4 == {i \in 1..Len(ips) : IsIPv4Text(ips[i])}
        IN  /\ v4 # {} =>
                client_ip = ips[CHOOSE i \in v4 : \A j \in v4 : i <= j]
            /\ (v4 = {} /\ ips[1] # <<>>) => client_ip = simplify_ipv6(ips[1])

\* C7: an IPv4-mapped IPv6 address, however written, in the source the
\* resolver reads, comes back as the IPv4 address it embeds
C7_MappedGivesIPv4 ==
    (ip_pc = "done" /\ FirstPresent(hdr) # 0) =>
        LET v == strip(Sources(hdr)[FirstPresent(hdr)])
        IN  IsMapped(v) => client_ip = Dotted(ParseIPv6(v))

\* C8 as claimed: a first source that does not parse is skipped for the
\* next one, and "unknown" is the result exactly when no source is present
\* or none that is present parses
C8_MalformedFallsThrough ==
    ip_pc = "done" =>
        /\ (client_ip = UNKNOWN) <=>
               \A i \in 1..5 : \A k \in 1..Len(NonBlank(Sources(hdr)[i])) :
                   ~Parses(NonBlank(Sources(hdr)[i])[k])
        /\ (FirstPresent(hdr) # 0
                /\ \A k \in 1..Len(NonBlank(Sources(hdr)[FirstPresent(hdr)])) :
                       ~Parses(NonBlank(Sources(hdr)[FirstPresent(hdr)])[k])) =>
               \A k \in 1..Len(NonBlank(Sources(hdr)[FirstPresent(hdr)])) :
                   client_ip # NonBlank(Sources(hdr)[FirstPresent(hdr)])[k]

\* C8 amended: the first source that is present decides alone.  A value
\* there that does not parse is the result as it stands (of a list, its
\* first entry that is not blank, trimmed, when that entry does not parse);
\* "unknown" is the result exactly when no source is present, or the first
\* one present is a list with only blank entries or holds the text "unknown"
C8_FirstPresentDecides ==
    ip_pc = "done" =>
        LET i == FirstPresent(hdr)
            v == Sources(hdr)[i]
        IN  /\ i = 0 => client_ip = UNKNOWN
            /\ (i # 0 /\ ~IsListSource(i) /\ ~Parses(v)) => client_ip = v
            /\ (i # 0 /\ IsListSource(i) /\ NonBlank(v) # <<>> /\ ~Parses(NonBlank(v)[1])) =>
                   client_ip = NonBlank(v)[1]
            /\ (client_ip = UNKNOWN) <=>
                   \/ i = 0
                   \/ (i # 0 /\ IsListSource(i) /\ NonBlank(v) = <<>>)
                   \/ (i # 0 /\ \E k \in 1..Len(NonBlank(v)) : NonBlank(v)[k] = UNKNOWN)

\* CF-Connecting-IPv6 does not parse, CF-Connecting-IP does, and the result
\* is the text of CF-Connecting-IPv6
C8_Witness ==
    /\ ip_pc = "done"
    /\ hdr.cf_ipv6 = <<"z", "z">>
    /\ hdr.cf_ip = <<"2", "0", "3", ".", "0", ".", "1", "1", "3", ".", "9">>
    /\ client_ip = <<"z", "z">>

=============================================================================
